---- MODULE Spec2Model ----
(***************************************************************************)
(* Model of the service-checking engine of dev-env-assistant:              *)
(*   app/services.py  ServiceHistory, EnhancedServiceChecker               *)
(*   app/routes.py    get_service_history (/api/history/<name>)            *)
(*   server.py        ServiceChecker (the MCP front end's checker)         *)
(* Caller threads invoke the operations; every operation is split at the   *)
(* points where another thread can interleave (the probe, the time stamp,  *)
(* the lock acquisition and every statement inside a critical section).    *)
(* Time is counted in hours since the epoch.                               *)
(***************************************************************************)
EXTENDS Integers, Sequences, FiniteSets, TLC

(* ---------------------------- bounds ----------------------------------- *)
MaxOps == 3
MaxTicks == 2
TickHours == 12
StartClock == 100
UtcOffsetHours == 2

(* ------------------------ program constants ---------------------------- *)
HISTORY_RETENTION_HOURS == 24
UPTIME_SAMPLE == 100
DEFAULT_EXPECTED_STATUS == 200
MAX_WORKERS == 10
DEFAULT_TIMEOUT == 5
DEFAULT_LIMIT == 50

Threads == {1, 2}
NoThread == 0
None == -1

Ports == {80}
Urls == {"http://a"}
UNKNOWN_NAME == "never-checked"

(* f"Port {port} Service Check" *)
PortName(port) == CASE port = 80 -> "Port 80 Service Check"
                    [] OTHER -> "Port ? Service Check"

(* f"HTTP Service: {url}" *)
HttpName(url) == CASE url = "http://a" -> "HTTP Service: http://a"
                   [] url = "http://[a" -> "HTTP Service: http://[a"
                   [] OTHER -> "HTTP Service: ?"

ServiceNames == {PortName(p) : p \in Ports} \cup {HttpName(u) : u \in Urls}
                  \cup {UNKNOWN_NAME}

(* Outcomes of a TCP connect. sock.connect_ex reports them as the errno it *)
(* returns (0, ECONNREFUSED, and EAGAIN when the socket's timeout expires) *)
(* and raises only where no connect is attempted (name resolution:         *)
(* socket.gaierror). socket.create_connection raises for each failure.     *)
ConnectOutcomes ==
  { [kind |-> "connected", code |-> 0], [kind |-> "refused", code |-> 111],
    [kind |-> "timed_out", code |-> 11], [kind |-> "gaierror", code |-> 0] }

(* Outcomes of requests.request: a response with a status code, or one of  *)
(* the exception classes the handlers distinguish.                         *)
StatusCodes == {200, 404}
HttpOutcomes == {[kind |-> "response", code |-> c] : c \in StatusCodes}
                  \cup {[kind |-> k, code |-> 0] :
                          k \in {"Timeout", "ConnectionError", "Exception"}}

Limits == {0, 1}
HoursArgs == {12}

(* Python truthiness of an optional number *)
Truthy(x) == x # None /\ x # 0

Max(a, b) == IF a > b THEN a ELSE b
Min(a, b) == IF a < b THEN a ELSE b

(* seq[-limit:] *)
PySliceLast(seq, limit) ==
  LET n == Len(seq)
      start == IF limit > 0 THEN Max(n - limit, 0) ELSE Min(0 - limit, n)
  IN SubSeq(seq, start + 1, n)

(* datetime.fromtimestamp(ts): local naive time of an epoch timestamp *)
FromTimestamp(ts) == ts + UtcOffsetHours

(* datetime.now(): local naive time of the clock reading *)
DatetimeNow(now) == now + UtcOffsetHours

(* datetime.now() - timedelta(hours=HISTORY_RETENTION_HOURS) *)
CutoffTime(now) == DatetimeNow(now) - HISTORY_RETENTION_HOURS

(* the comprehension testing only `r.timestamp`, without the cutoff *)
Retained_TruthyOnly(r, cutoff_time) == r.timestamp # 0

(* the condition of the list comprehension in add_result *)
Retained(r, cutoff_time) ==
  r.timestamp # 0 /\ FromTimestamp(r.timestamp) > cutoff_time

(* a comprehension keeping the newest retained entry alone *)
FilterRetained_KeepLast(seq, cutoff_time) ==
  LET kept == SelectSeq(seq, LAMBDA r : Retained(r, cutoff_time))
  IN IF kept = <<>> THEN <<>> ELSE <<kept[Len(kept)]>>

RECURSIVE FilterRetained(_, _)
FilterRetained(seq, cutoff_time) ==
  IF seq = <<>> THEN <<>>
  ELSE LET rest == FilterRetained(Tail(seq), cutoff_time)
       IN IF Retained(Head(seq), cutoff_time) THEN <<Head(seq)>> \o rest
          ELSE rest

IsSuccess(status) == status \in {"up", "open"}

RECURSIVE CountSuccess(_)
CountSuccess(seq) ==
  IF seq = <<>> THEN 0
  ELSE (IF IsSuccess(Head(seq).status) THEN 1 ELSE 0) + CountSuccess(Tail(seq))

(* the value get_uptime_percentage computes from recent_results; the float *)
(* (successful / len) * 100 is kept as the exact fraction num/den          *)
UptimeValue(recent_results) ==
  IF recent_results = <<>> THEN [num |-> 0, den |-> 1]
  ELSE [num |-> CountSuccess(recent_results) * 100,
        den |-> Len(recent_results)]

(* ServiceResult(...): the six fields of the dataclass; id stands for the  *)
(* identity of the Python object. An absent optional string is "None", an  *)
(* absent optional number is None.                                         *)
ServiceResult(id, name, status, response_time, error_message, details, timestamp) ==
  [id |-> id, name |-> name, status |-> status,
   response_time |-> response_time, error_message |-> error_message,
   details |-> details, timestamp |-> timestamp]

(* ServiceResult.__post_init__ *)
PostInit(r, now) ==
  IF r.timestamp = None THEN [r EXCEPT !.timestamp = now] ELSE r

NoResult == ServiceResult(0, "", "unknown", None, "None", "None", 0)

(* the response time a check measures, in the model's unit *)
MEASURED == 1

(* ServiceResult.to_dict *)
ToDict(r) ==
  [name |-> r.name, status |-> r.status, response_time |-> r.response_time,
   error_message |-> r.error_message, details |-> r.details,
   timestamp |-> r.timestamp]

(* data.get(key, default) for a string-valued and a number-valued key *)
GetOr(d, key, default) == IF key \in DOMAIN d THEN d[key] ELSE default

(* from_dict without the details key *)
FromDict_NoDetails(id, data, now) ==
  PostInit(ServiceResult(id, GetOr(data, "name", ""),
                         GetOr(data, "status", "unknown"),
                         GetOr(data, "response_time", None),
                         GetOr(data, "error_message", "None"),
                         "None",
                         GetOr(data, "timestamp", None)), now)

(* ServiceResult.from_dict, creating object number id at time now *)
FromDict(id, data, now) ==
  PostInit(ServiceResult(id, GetOr(data, "name", ""),
                         GetOr(data, "status", "unknown"),
                         GetOr(data, "response_time", None),
                         GetOr(data, "error_message", "None"),
                         GetOr(data, "details", "None"),
                         GetOr(data, "timestamp", None)), now)

(* get_port_description compares the port with integers: a port that is   *)
(* not a number (None) raises TypeError                                    *)
GetPortDescriptionRaises(port) == port = None

(* urlparse raises ValueError("Invalid IPv6 URL") for a netloc holding a   *)
(* square bracket without its partner                                      *)
UrlparseRaises(url) == url \in {"http://[a"}

(* check_port_service leaving error_message unset on every path *)
PortClassify_NoMessage(outcome) ==
  [status |-> IF outcome.kind = "gaierror" THEN "error"
              ELSE IF outcome.code = 0 THEN "open" ELSE "closed",
   error_message |-> "None", details |-> "details"]

(* status, error_message and details chosen by check_port_service *)
PortClassify(outcome) ==
  CASE outcome.kind = "socket.timeout" ->
         [status |-> "timeout", error_message |-> "Timeout connecting",
          details |-> "Connection timeout"]
    [] outcome.kind = "gaierror" ->
         [status |-> "error", error_message |-> "str(e)",
          details |-> "Connection error"]
    [] OTHER ->
         IF outcome.code = 0
         THEN [status |-> "open", error_message |-> "None",
               details |-> "is accessible"]
         ELSE [status |-> "closed", error_message |-> "Connection refused",
               details |-> "is not accessible"]

(* f"Expected status {expected}, got {response.status_code}" *)
ExpectedGot(expected, code) ==
  CASE expected = 200 /\ code = 404 -> "Expected status 200, got 404"
    [] expected = 404 /\ code = 200 -> "Expected status 404, got 200"
    [] OTHER -> "Expected status ?, got ?"

(* status, error_message and details chosen by check_http_service *)
HttpClassify(outcome, expected_status) ==
  LET expected == IF Truthy(expected_status) THEN expected_status
                  ELSE DEFAULT_EXPECTED_STATUS
  IN CASE outcome.kind = "response" ->
            IF outcome.code = expected
            THEN [status |-> "up", error_message |-> "None",
                  details |-> "is responding"]
            ELSE [status |-> "down",
                  error_message |-> ExpectedGot(expected, outcome.code),
                  details |-> "unexpected status"]
       [] outcome.kind = "Timeout" ->
            [status |-> "timeout", error_message |-> "Request timeout",
             details |-> "timed out"]
       [] outcome.kind = "ConnectionError" ->
            [status |-> "down", error_message |-> "Connection refused",
             details |-> "Cannot connect"]
       [] OTHER -> [status |-> "error", error_message |-> "str(e)",
                    details |-> "Error checking"]

(* ------------------------------ state ---------------------------------- *)
VARIABLES
  clock,       \* the wall clock read by time.time() and datetime.now()
  history,     \* ServiceHistory.history: name -> list, keys created on write
  lock,        \* ServiceHistory.lock: the holding thread, or NoThread
  pc,          \* position of each caller thread
  call,        \* arguments of the operation each thread is running
  stack,       \* callers of the function each thread is in, outermost first
  cur,         \* the ServiceResult / classification a thread is working on
  scratch,     \* the list and cutoff computed by add_result's comprehension
  batch,       \* check_multiple_services: the requests, position and results
  ret,         \* what the finished operation handed to its caller
  nextId,      \* next object identity; also counts the invocations
  added,       \* results whose add_result call has completed
  returned,    \* results returned by check_port_service/check_http_service
  evictedAt    \* per name, the clock reading of its last eviction, else 0

vars == <<clock, history, lock, pc, call, stack, cur, scratch, batch, ret,
          nextId, added, returned, evictedAt>>

NoCall == [op |-> "none", id |-> 0, name |-> "", port |-> 0, url |-> "",
           expected_status |-> None, limit |-> 0, hours |-> 0,
           timeout |-> DEFAULT_TIMEOUT, method |-> "GET"]
NoScratch == [now |-> 0, cutoff |-> 0, list |-> <<>>]
NoBatch == [services |-> <<>>, i |-> 0, results |-> <<>>, base |-> 0]
NoRet == [kind |-> "none"]

Init ==
  /\ clock = StartClock
  /\ history = [n \in {} |-> <<>>]
  /\ lock = NoThread
  /\ pc = [t \in Threads |-> "idle"]
  /\ call = [t \in Threads |-> NoCall]
  /\ stack = [t \in Threads |-> <<>>]
  /\ cur = [t \in Threads |-> NoResult]
  /\ scratch = [t \in Threads |-> NoScratch]
  /\ batch = [t \in Threads |-> NoBatch]
  /\ ret = [t \in Threads |-> NoRet]
  /\ nextId = 1
  /\ added = {}
  /\ returned = {}
  /\ evictedAt = [n \in ServiceNames |-> 0]

(* self.history.get(service_name, []) *)
DictGet(name) == IF name \in DOMAIN history THEN history[name] ELSE <<>>

(* self.history[service_name] = value, creating the key when absent *)
DictSet(name, value) ==
  [n \in DOMAIN history \cup {name} |-> IF n = name THEN value ELSE history[n]]

(* the critical sections entered without waiting for the lock *)
LockAvailable_Unguarded(t) == TRUE

(* threading.Lock is not reentrant: acquire waits until nobody holds it *)
LockAvailable(t) == lock = NoThread

Top(s) == IF s = <<>> THEN "none" ELSE s[Len(s)]
Pop(s) == SubSeq(s, 1, Len(s) - 1)

(* the clock advances between any two steps of any thread *)
Tick ==
  /\ clock + TickHours <= StartClock + MaxTicks * TickHours
  /\ clock' = clock + TickHours
  /\ UNCHANGED <<history, lock, pc, call, stack, cur, scratch, batch, ret,
                 nextId, added, returned, evictedAt>>

(* a caller thread enters an operation: its frame is fresh, and the value *)
(* of its previous call is dropped; n object identities are reserved      *)
Begin(t, c, frames, r, b, first_pc, n) ==
  /\ pc[t] = "idle"
  /\ nextId + n - 1 <= MaxOps
  /\ call' = [call EXCEPT ![t] = c]
  /\ stack' = [stack EXCEPT ![t] = frames]
  /\ cur' = [cur EXCEPT ![t] = r]
  /\ batch' = [batch EXCEPT ![t] = b]
  /\ scratch' = [scratch EXCEPT ![t] = NoScratch]
  /\ ret' = [ret EXCEPT ![t] = NoRet]
  /\ pc' = [pc EXCEPT ![t] = first_pc]
  /\ nextId' = nextId + n
  /\ UNCHANGED <<clock, history, lock, added, returned, evictedAt>>

(* ------------------- EnhancedServiceChecker: one check ------------------ *)
InvokeCheckPort(t, port) ==
  Begin(t, [NoCall EXCEPT !.op = "check_port_service", !.id = nextId,
                          !.port = port],
        <<"check">>, NoResult, NoBatch, "port_probe", 1)

InvokeCheckHttp(t, url, expected_status) ==
  Begin(t, [NoCall EXCEPT !.op = "check_http_service", !.id = nextId,
                          !.url = url, !.expected_status = expected_status],
        <<"check">>, NoResult, NoBatch, "http_probe", 1)

(* an exception leaves the check, and the batch loop around it if any *)
Raise(t, exception) ==
  /\ pc' = [pc EXCEPT ![t] = "idle"]
  /\ ret' = [ret EXCEPT ![t] = [kind |-> "raised", value |-> exception]]
  /\ stack' = [stack EXCEPT ![t] = <<>>]
  /\ cur' = [cur EXCEPT ![t] = NoResult]

(* check_port_service up to the ServiceResult: the port description, then *)
(* the try block: connect and classify                                    *)
PortProbe(t, outcome) ==
  /\ pc[t] = "port_probe"
  /\ IF GetPortDescriptionRaises(call[t].port)
     THEN Raise(t, "TypeError")
     ELSE /\ LET c == PortClassify(outcome)
             IN cur' = [cur EXCEPT ![t] =
                          ServiceResult(0, "", c.status, MEASURED,
                                        c.error_message, c.details, 0)]
          /\ pc' = [pc EXCEPT ![t] = "port_build"]
          /\ UNCHANGED <<stack, ret>>
  /\ UNCHANGED <<clock, history, lock, call, scratch, batch,
                 nextId, added, returned, evictedAt>>

(* check_http_service up to the ServiceResult: urlparse, then the try     *)
(* block: request and classify                                            *)
HttpProbe(t, outcome) ==
  /\ pc[t] = "http_probe"
  /\ IF UrlparseRaises(call[t].url)
     THEN Raise(t, "ValueError")
     ELSE /\ LET c == HttpClassify(outcome, call[t].expected_status)
             IN cur' = [cur EXCEPT ![t] =
                          ServiceResult(0, "", c.status, MEASURED,
                                        c.error_message, c.details, 0)]
          /\ pc' = [pc EXCEPT ![t] = "http_build"]
          /\ UNCHANGED <<stack, ret>>
  /\ UNCHANGED <<clock, history, lock, call, scratch, batch,
                 nextId, added, returned, evictedAt>>

(* result = ServiceResult(..., timestamp=time.time()); the statement that  *)
(* follows it is self.history.add_result(result)                           *)
BuildResult(t, name, next_pc) ==
  LET r == ServiceResult(call[t].id, name, cur[t].status,
                         cur[t].response_time, cur[t].error_message,
                         cur[t].details, clock)
  IN /\ cur' = [cur EXCEPT ![t] = r]
     /\ pc' = [pc EXCEPT ![t] = next_pc]
     /\ UNCHANGED <<clock, history, lock, call, stack, scratch, batch, ret,
                    nextId, added, returned, evictedAt>>

(* check_port_service returning the result without recording it *)
PortBuild_Unrecorded(t) ==
  /\ pc[t] = "port_build"
  /\ BuildResult(t, PortName(call[t].port), "check_return")

PortBuild(t) ==
  /\ pc[t] = "port_build"
  /\ BuildResult(t, PortName(call[t].port), "add_lock")

HttpBuild(t) ==
  /\ pc[t] = "http_build"
  /\ BuildResult(t, HttpName(call[t].url), "add_lock")

(* ------------------------ ServiceHistory.add_result --------------------- *)
InvokeAddResult(t, name, status, timestamp) ==
  Begin(t, [NoCall EXCEPT !.op = "add_result", !.id = nextId, !.name = name],
        <<>>,
        ServiceResult(nextId, name, status, None,
                      IF IsSuccess(status) THEN "None" ELSE "message",
                      "None", timestamp),
        NoBatch, "add_lock", 1)

(* with self.lock: *)
AddAcquire(t) ==
  /\ pc[t] = "add_lock"
  /\ LockAvailable(t)
  /\ lock' = t
  /\ pc' = [pc EXCEPT ![t] = "add_append"]
  /\ UNCHANGED <<clock, history, call, stack, cur, scratch, batch, ret,
                 nextId, added, returned, evictedAt>>

(* add_result putting the result in front of the list *)
AddAppend_Prepend(t) ==
  /\ pc[t] = "add_append"
  /\ history' = DictSet(cur[t].name, <<cur[t]>> \o DictGet(cur[t].name))
  /\ pc' = [pc EXCEPT ![t] = "add_filter"]
  /\ UNCHANGED <<clock, lock, call, stack, cur, scratch, batch, ret,
                 nextId, added, returned, evictedAt>>

(* self.history[service_name].append(result) *)
AddAppend(t) ==
  /\ pc[t] = "add_append"
  /\ history' = DictSet(cur[t].name, Append(DictGet(cur[t].name), cur[t]))
  /\ pc' = [pc EXCEPT ![t] = "add_filter"]
  /\ UNCHANGED <<clock, lock, call, stack, cur, scratch, batch, ret,
                 nextId, added, returned, evictedAt>>

(* cutoff_time = ...; the list comprehension builds the filtered list *)
AddFilter(t) ==
  /\ pc[t] = "add_filter"
  /\ LET cutoff_time == CutoffTime(clock)
     IN scratch' = [scratch EXCEPT ![t] =
                      [now |-> clock, cutoff |-> cutoff_time,
                       list |-> FilterRetained(DictGet(cur[t].name),
                                               cutoff_time)]]
  /\ pc' = [pc EXCEPT ![t] = "add_store"]
  /\ UNCHANGED <<clock, history, lock, call, stack, cur, batch, ret,
                 nextId, added, returned, evictedAt>>

(* the assignment replacing the whole map by the one filtered list *)
AddStore_OnlyName(t) ==
  /\ pc[t] = "add_store"
  /\ history' = [n \in {cur[t].name} |-> scratch[t].list]
  /\ evictedAt' = [evictedAt EXCEPT ![cur[t].name] = scratch[t].now]
  /\ pc' = [pc EXCEPT ![t] = "add_unlock"]
  /\ UNCHANGED <<clock, lock, call, stack, cur, scratch, batch, ret,
                 nextId, added, returned>>

(* self.history[service_name] = [...] *)
AddStore(t) ==
  /\ pc[t] = "add_store"
  /\ history' = DictSet(cur[t].name, scratch[t].list)
  /\ evictedAt' = [evictedAt EXCEPT ![cur[t].name] = scratch[t].now]
  /\ pc' = [pc EXCEPT ![t] = "add_unlock"]
  /\ UNCHANGED <<clock, lock, call, stack, cur, scratch, batch, ret,
                 nextId, added, returned>>

(* leaving the with block releases the lock; add_result returns None *)
AddRelease(t) ==
  /\ pc[t] = "add_unlock"
  /\ lock' = NoThread
  /\ added' = added \cup {cur[t]}
  /\ scratch' = [scratch EXCEPT ![t] = NoScratch]
  /\ IF Top(stack[t]) = "check"
     THEN /\ pc' = [pc EXCEPT ![t] = "check_return"]
          /\ UNCHANGED <<call, cur, ret>>
     ELSE /\ pc' = [pc EXCEPT ![t] = "idle"]
          /\ call' = [call EXCEPT ![t] = NoCall]
          /\ cur' = [cur EXCEPT ![t] = NoResult]
          /\ ret' = [ret EXCEPT ![t] = [kind |-> "None"]]
  /\ UNCHANGED <<clock, history, stack, batch,
                 nextId, returned, evictedAt>>

(* return result; inside a batch the caller appends result.to_dict() *)
CheckReturn(t) ==
  /\ pc[t] = "check_return"
  /\ returned' = returned \cup {cur[t]}
  /\ stack' = [stack EXCEPT ![t] = Pop(stack[t])]
  /\ cur' = [cur EXCEPT ![t] = NoResult]
  /\ IF Top(Pop(stack[t])) = "batch"
     THEN /\ batch' = [batch EXCEPT ![t].results = Append(@, ToDict(cur[t])),
                                    ![t].i = @ + 1]
          /\ pc' = [pc EXCEPT ![t] = "batch_loop"]
          /\ UNCHANGED <<call, ret>>
     ELSE /\ batch' = batch
          /\ pc' = [pc EXCEPT ![t] = "idle"]
          /\ call' = [call EXCEPT ![t] = NoCall]
          /\ ret' = [ret EXCEPT ![t] = [kind |-> "result", value |-> cur[t]]]
  /\ UNCHANGED <<clock, history, lock, scratch,
                 nextId, added, evictedAt>>

(* ------------------------ ServiceHistory.get_history -------------------- *)
InvokeGetHistory(t, name, limit) ==
  Begin(t, [NoCall EXCEPT !.op = "get_history", !.name = name,
                          !.limit = limit],
        <<>>, NoResult, NoBatch, "gh_lock", 1)

(* with self.lock: *)
GhAcquire(t) ==
  /\ pc[t] = "gh_lock"
  /\ LockAvailable(t)
  /\ lock' = t
  /\ pc' = [pc EXCEPT ![t] = "gh_read"]
  /\ UNCHANGED <<clock, history, call, stack, cur, scratch, batch, ret,
                 nextId, added, returned, evictedAt>>

(* get_history reading self.history[service_name], which makes the key *)
GhRead_Subscript(t) ==
  /\ pc[t] = "gh_read"
  /\ history' = DictSet(call[t].name, DictGet(call[t].name))
  /\ scratch' = [scratch EXCEPT ![t] =
                   [NoScratch EXCEPT
                      !.list = PySliceLast(DictGet(call[t].name),
                                           call[t].limit)]]
  /\ pc' = [pc EXCEPT ![t] = "gh_unlock"]
  /\ UNCHANGED <<clock, lock, call, stack, cur, batch, ret,
                 nextId, added, returned, evictedAt>>

(* self.history.get(service_name, [])[-limit:] *)
GhRead(t) ==
  /\ pc[t] = "gh_read"
  /\ scratch' = [scratch EXCEPT ![t] =
                   [NoScratch EXCEPT
                      !.list = PySliceLast(DictGet(call[t].name),
                                           call[t].limit)]]
  /\ pc' = [pc EXCEPT ![t] = "gh_unlock"]
  /\ UNCHANGED <<clock, history, lock, call, stack, cur, batch, ret,
                 nextId, added, returned, evictedAt>>

(* leaving the with block releases the lock and the list is returned: to   *)
(* the caller, to the /api/history handler (which goes on to call          *)
(* get_uptime_percentage), or to get_uptime_percentage (which computes the *)
(* percentage from it and returns)                                         *)
GhRelease(t) ==
  /\ pc[t] = "gh_unlock"
  /\ lock' = NoThread
  /\ scratch' = [scratch EXCEPT ![t] = NoScratch]
  /\ CASE Top(stack[t]) = "uptime" ->
            /\ pc' = [pc EXCEPT ![t] = "idle"]
            /\ ret' = [ret EXCEPT ![t] =
                         [kind |-> "uptime",
                          value |-> UptimeValue(scratch[t].list)]]
            /\ stack' = [stack EXCEPT ![t] = <<>>]
            /\ call' = [call EXCEPT ![t] = NoCall]
       [] Top(stack[t]) = "route" ->
            /\ pc' = [pc EXCEPT ![t] = "up_lock"]
            /\ ret' = [ret EXCEPT ![t] =
                         [kind |-> "history", value |-> scratch[t].list]]
            /\ UNCHANGED <<stack, call>>
       [] OTHER ->
            /\ pc' = [pc EXCEPT ![t] = "idle"]
            /\ ret' = [ret EXCEPT ![t] =
                         [kind |-> "history", value |-> scratch[t].list]]
            /\ stack' = stack
            /\ call' = [call EXCEPT ![t] = NoCall]
  /\ UNCHANGED <<clock, history, cur, batch,
                 nextId, added, returned, evictedAt>>

(* ------------------- ServiceHistory.get_uptime_percentage --------------- *)
InvokeGetUptime(t, name, hours) ==
  Begin(t, [NoCall EXCEPT !.op = "get_uptime_percentage", !.name = name,
                          !.hours = hours],
        <<>>, NoResult, NoBatch, "up_lock", 1)

(* with self.lock: and, holding it, the call                               *)
(* self.get_history(service_name, 100), which starts by acquiring the lock *)
UpAcquire(t) ==
  /\ pc[t] = "up_lock"
  /\ LockAvailable(t)
  /\ lock' = t
  /\ call' = [call EXCEPT ![t].limit = UPTIME_SAMPLE]
  /\ stack' = [stack EXCEPT ![t] = Append(@, "uptime")]
  /\ pc' = [pc EXCEPT ![t] = "gh_lock"]
  /\ UNCHANGED <<clock, history, cur, scratch, batch, ret,
                 nextId, added, returned, evictedAt>>

(* ------------------- routes.get_service_history ------------------------- *)
InvokeHistoryRoute(t, name, limit) ==
  Begin(t, [NoCall EXCEPT !.op = "get_service_history", !.name = name,
                          !.limit = limit, !.hours = HISTORY_RETENTION_HOURS],
        <<"route">>, NoResult, NoBatch, "gh_lock", 1)

(* ------------- EnhancedServiceChecker.check_multiple_services ----------- *)
Requests ==
  { [type |-> "port", port |-> 80], [type |-> "port"],
    [type |-> "http", url |-> "http://a"], [type |-> "http"],
    [type |-> "ftp"], [name |-> "untyped"] }

MaxBatch == 2

BatchInputs == UNION {[1..n -> Requests] : n \in 0..MaxBatch}

InvokeBatch(t, services) ==
  Begin(t, [NoCall EXCEPT !.op = "check_multiple_services"],
        <<"batch">>, NoResult,
        [services |-> services, i |-> 1, results |-> <<>>, base |-> nextId],
        "batch_loop", Max(Len(services), 1))

(* one iteration of the for loop up to the call it makes *)
BatchStep(t) ==
  /\ pc[t] = "batch_loop"
  /\ batch[t].i <= Len(batch[t].services)
  /\ LET service == batch[t].services[batch[t].i]
         type == GetOr(service, "type", "None")
         id == batch[t].base + batch[t].i - 1
         KeyError == /\ pc' = [pc EXCEPT ![t] = "idle"]
                     /\ ret' = [ret EXCEPT ![t] =
                                  [kind |-> "raised", value |-> "KeyError"]]
                     /\ stack' = [stack EXCEPT ![t] = <<>>]
                     /\ UNCHANGED <<call, batch>>
     IN CASE type = "http" ->
               IF "url" \in DOMAIN service
               THEN /\ call' = [call EXCEPT ![t].id = id,
                                            ![t].url = service.url,
                                            ![t].timeout = DEFAULT_TIMEOUT,
                                            ![t].expected_status = None,
                                            ![t].method = "GET"]
                    /\ stack' = [stack EXCEPT ![t] = Append(@, "check")]
                    /\ pc' = [pc EXCEPT ![t] = "http_probe"]
                    /\ UNCHANGED <<batch, ret>>
               ELSE KeyError
          [] type = "port" ->
               IF "port" \in DOMAIN service
               THEN /\ call' = [call EXCEPT ![t].id = id,
                                            ![t].port = service.port,
                                            ![t].timeout = DEFAULT_TIMEOUT]
                    /\ stack' = [stack EXCEPT ![t] = Append(@, "check")]
                    /\ pc' = [pc EXCEPT ![t] = "port_probe"]
                    /\ UNCHANGED <<batch, ret>>
               ELSE KeyError
          [] OTHER ->
               /\ batch' = [batch EXCEPT ![t].i = @ + 1]
               /\ UNCHANGED <<call, stack, pc, ret>>
  /\ UNCHANGED <<clock, history, lock, cur, scratch,
                 nextId, added, returned, evictedAt>>

RECURSIVE CountOnline(_)
CountOnline(results) ==
  IF results = <<>> THEN 0
  ELSE (IF Head(results).status \in {"up", "open"} THEN 1 ELSE 0)
         + CountOnline(Tail(results))

(* the return statement after the loop *)
BatchReturn(t) ==
  /\ pc[t] = "batch_loop"
  /\ batch[t].i > Len(batch[t].services)
  /\ ret' = [ret EXCEPT ![t] =
               [kind |-> "batch",
                value |-> [total_services |-> Len(batch[t].results),
                           online_services |-> CountOnline(batch[t].results),
                           services |-> batch[t].results]]]
  /\ stack' = [stack EXCEPT ![t] = <<>>]
  /\ pc' = [pc EXCEPT ![t] = "idle"]
  /\ UNCHANGED <<clock, history, lock, call, cur, scratch, batch,
                 nextId, added, returned, evictedAt>>

(* ------------------- server.ServiceChecker (MCP front end) -------------- *)
(* status chosen by ServiceChecker.check_port *)
McpCheckPort(outcome) ==
  IF outcome.kind = "connected" THEN "open" ELSE "closed"

(* status chosen by ServiceChecker.check_http_service *)
McpCheckHttp(outcome, expected_status) ==
  CASE outcome.kind = "response" ->
         IF Truthy(expected_status) /\ outcome.code # expected_status
         THEN "unhealthy" ELSE "up"
    [] outcome.kind = "Timeout" -> "timeout"
    [] outcome.kind = "ConnectionError" -> "down"
    [] OTHER -> "error"

(* service["port"] / service["url"] raises KeyError when the key is absent *)
McpRaises(service) ==
  LET service_type == GetOr(service, "type", "port")
  IN \/ service_type = "port" /\ "port" \notin DOMAIN service
     \/ service_type = "http" /\ "url" \notin DOMAIN service

(* the result one loop iteration appends *)
McpResult(service, outcome) ==
  LET service_type == GetOr(service, "type", "port")
  IN CASE service_type = "port" ->
            [status |-> McpCheckPort(outcome),
             name |-> GetOr(service, "name", "Port")]
       [] service_type = "http" ->
            [status |-> McpCheckHttp(outcome,
                                     GetOr(service, "expected_status", None)),
             name |-> GetOr(service, "name", "url")]
       [] OTHER ->
            [status |-> "error", name |-> GetOr(service, "name", "Unknown")]

(* check_multiple_services taking all_healthy from the last result alone *)
McpCheckMultiple_LastOnly(services, outcomes) ==
  IF \E i \in 1..Len(services) : McpRaises(services[i])
  THEN [kind |-> "raised", value |-> "KeyError"]
  ELSE LET results == [i \in 1..Len(services) |->
                         McpResult(services[i], outcomes[i])]
           healthy == {i \in 1..Len(services) :
                         results[i].status \in {"open", "up"}}
       IN [kind |-> "mcp_batch",
           value |-> [overall_status |->
                        IF services = <<>> \/ Len(services) \in healthy
                        THEN "healthy" ELSE "unhealthy",
                      services |-> results,
                      healthy |-> Cardinality(healthy),
                      total |-> Len(results)]]

(* ServiceChecker.check_multiple_services; summary "h/t services are       *)
(* healthy" is kept as the two numbers                                     *)
McpCheckMultiple(services, outcomes) ==
  IF \E i \in 1..Len(services) : McpRaises(services[i])
  THEN [kind |-> "raised", value |-> "KeyError"]
  ELSE LET results == [i \in 1..Len(services) |->
                         McpResult(services[i], outcomes[i])]
           healthy == {i \in 1..Len(services) :
                         results[i].status \in {"open", "up"}}
       IN [kind |-> "mcp_batch",
           value |-> [overall_status |->
                        IF healthy = 1..Len(services) THEN "healthy"
                        ELSE "unhealthy",
                      services |-> results,
                      healthy |-> Cardinality(healthy),
                      total |-> Len(results)]]

(* the MCP checker keeps no state: a call is one step of its caller *)
InvokeMcpBatch(t, services, outcomes) ==
  /\ pc[t] = "idle"
  /\ nextId <= MaxOps
  /\ call' = [call EXCEPT ![t] =
                [NoCall EXCEPT !.op = "mcp_check_multiple_services"]]
  /\ stack' = [stack EXCEPT ![t] = <<>>]
  /\ cur' = [cur EXCEPT ![t] = NoResult]
  /\ scratch' = [scratch EXCEPT ![t] = NoScratch]
  /\ batch' = [batch EXCEPT ![t] = [NoBatch EXCEPT !.services = services]]
  /\ ret' = [ret EXCEPT ![t] = McpCheckMultiple(services, outcomes)]
  /\ nextId' = nextId + 1
  /\ UNCHANGED <<clock, history, lock, pc, added, returned, evictedAt>>

(* a single call of the MCP checker is one step of its caller too *)
InvokeMcp(t, op, c, r) ==
  /\ pc[t] = "idle"
  /\ nextId <= MaxOps
  /\ call' = [call EXCEPT ![t] = [c EXCEPT !.op = op]]
  /\ stack' = [stack EXCEPT ![t] = <<>>]
  /\ cur' = [cur EXCEPT ![t] = NoResult]
  /\ scratch' = [scratch EXCEPT ![t] = NoScratch]
  /\ batch' = [batch EXCEPT ![t] = NoBatch]
  /\ ret' = [ret EXCEPT ![t] = r]
  /\ nextId' = nextId + 1
  /\ UNCHANGED <<clock, history, lock, pc, added, returned, evictedAt>>

(* ServiceChecker.check_port(host, port) *)
InvokeMcpCheckPort(t, port, outcome) ==
  InvokeMcp(t, "mcp_check_port", [NoCall EXCEPT !.port = port],
            [kind |-> "mcp_port", outcome |-> outcome,
             value |-> [status |-> McpCheckPort(outcome), port |-> port]])

(* ServiceChecker.check_http_service(url, expected_status=...) *)
InvokeMcpCheckHttp(t, url, expected_status, outcome) ==
  InvokeMcp(t, "mcp_check_http_service",
            [NoCall EXCEPT !.url = url, !.expected_status = expected_status],
            [kind |-> "mcp_http", outcome |-> outcome,
             value |-> [status |-> McpCheckHttp(outcome, expected_status),
                        url |-> url]])

(* ----------------------- models.ServiceResult --------------------------- *)
(* r = ServiceResult(...); r.to_dict() *)
InvokeToDict(t, name, status, response_time, error_message, details, timestamp) ==
  /\ pc[t] = "idle"
  /\ nextId <= MaxOps
  /\ LET r == PostInit(ServiceResult(nextId, name, status, response_time,
                                     error_message, details, timestamp),
                       clock)
     IN /\ cur' = [cur EXCEPT ![t] = r]
        /\ ret' = [ret EXCEPT ![t] = [kind |-> "dict", value |-> ToDict(r)]]
  /\ call' = [call EXCEPT ![t] = [NoCall EXCEPT !.op = "to_dict"]]
  /\ stack' = [stack EXCEPT ![t] = <<>>]
  /\ scratch' = [scratch EXCEPT ![t] = NoScratch]
  /\ batch' = [batch EXCEPT ![t] = NoBatch]
  /\ nextId' = nextId + 1
  /\ UNCHANGED <<clock, history, lock, pc, added, returned, evictedAt>>

(* ServiceResult.from_dict(data) on the dictionary r.to_dict() returned *)
InvokeFromDict(t) ==
  /\ pc[t] = "idle"
  /\ nextId <= MaxOps
  /\ ret[t].kind = "dict"
  /\ ret' = [ret EXCEPT ![t] =
               [kind |-> "from_dict", data |-> ret[t].value,
                value |-> FromDict(nextId, ret[t].value, clock)]]
  /\ call' = [call EXCEPT ![t] = [NoCall EXCEPT !.op = "from_dict"]]
  /\ nextId' = nextId + 1
  /\ UNCHANGED <<clock, history, lock, pc, stack, cur, scratch, batch,
                 added, returned, evictedAt>>

(* ServiceResult.from_dict(data) on a dictionary lacking keys *)
InvokeFromPartialDict(t, data) ==
  /\ pc[t] = "idle"
  /\ nextId <= MaxOps
  /\ ret' = [ret EXCEPT ![t] =
               [kind |-> "from_partial_dict", data |-> data,
                value |-> FromDict(nextId, data, clock)]]
  /\ cur' = [cur EXCEPT ![t] = NoResult]
  /\ call' = [call EXCEPT ![t] = [NoCall EXCEPT !.op = "from_dict"]]
  /\ nextId' = nextId + 1
  /\ UNCHANGED <<clock, history, lock, pc, stack, scratch, batch,
                 added, returned, evictedAt>>

(* --------------------------- specifications ----------------------------- *)
DirectStatuses == {"up"}
RouteLimits == {2}
AddNames == {PortName(80)}
Reads == {[name |-> PortName(80), limit |-> l] : l \in Limits}
           \cup {[name |-> UNKNOWN_NAME, limit |-> 1]}
UptimeNames == {PortName(80)}
CheckReadNames == {PortName(80)}
CheckConnects == {o \in ConnectOutcomes : o.kind = "connected"}
CheckResponses == {o \in HttpOutcomes : o.kind = "response" /\ o.code = 200}
CheckExpected == {None}
CheckReadLimits == {2}
BatchCallers == {1}
ProbeCallers == {1}
ProbePorts == Ports \cup {None}
ProbeUrls == Urls \cup {"http://[a"}
ExpectedStatuses == {None, 0, 404}

(* the steps of add_result and of the read operations *)
StoreStep(t) ==
  \/ AddAcquire(t)
  \/ AddAppend(t)
  \/ AddFilter(t)
  \/ AddStore(t)
  \/ AddRelease(t)
  \/ GhAcquire(t)
  \/ GhRead(t)
  \/ GhRelease(t)
  \/ UpAcquire(t)

(* the steps of check_port_service and check_http_service *)
CheckStep(t) ==
  \/ \E outcome \in CheckConnects : PortProbe(t, outcome)
  \/ \E outcome \in CheckResponses : HttpProbe(t, outcome)
  \/ PortBuild(t)
  \/ HttpBuild(t)
  \/ AddAcquire(t)
  \/ AddAppend(t)
  \/ AddFilter(t)
  \/ AddStore(t)
  \/ AddRelease(t)
  \/ CheckReturn(t)
  \/ GhAcquire(t)
  \/ GhRead(t)
  \/ GhRelease(t)

(* the steps of check_multiple_services *)
BatchSteps(t) ==
  \/ BatchStep(t)
  \/ BatchReturn(t)
  \/ \E outcome \in ConnectOutcomes : PortProbe(t, outcome)
  \/ \E outcome \in HttpOutcomes : HttpProbe(t, outcome)
  \/ PortBuild(t)
  \/ HttpBuild(t)
  \/ AddAcquire(t)
  \/ AddAppend(t)
  \/ AddFilter(t)
  \/ AddStore(t)
  \/ AddRelease(t)
  \/ CheckReturn(t)

(* callers of the ServiceHistory operations and of the /api/history route *)
StoreInvoke(t) ==
  \/ \E name \in AddNames, status \in DirectStatuses,
        ts \in {0, StartClock - 1, clock} : InvokeAddResult(t, name, status, ts)
  \/ \E read \in Reads : InvokeGetHistory(t, read.name, read.limit)
  \/ \E name \in UptimeNames, hours \in HoursArgs :
        InvokeGetUptime(t, name, hours)
  \/ \E name \in UptimeNames, limit \in RouteLimits :
        InvokeHistoryRoute(t, name, limit)

(* callers of the single checks, and readers of their history *)
CheckInvoke(t) ==
  \/ \E port \in Ports : InvokeCheckPort(t, port)
  \/ \E url \in Urls, e \in CheckExpected : InvokeCheckHttp(t, url, e)
  \/ \E name \in CheckReadNames, limit \in CheckReadLimits :
        InvokeGetHistory(t, name, limit)

(* what the network does to each entry of an MCP batch: a connect outcome *)
(* for a port entry, a request outcome for an http entry                  *)
McpOutcomes(services) ==
  { o \in [1..Len(services) -> ConnectOutcomes \cup HttpOutcomes] :
      \A i \in 1..Len(services) :
        LET service_type == GetOr(services[i], "type", "port")
        IN CASE service_type = "http" -> o[i] \in HttpOutcomes
             [] service_type = "port" -> o[i] \in ConnectOutcomes
             [] OTHER -> o[i] = [kind |-> "connected", code |-> 0] }

(* callers of the two batch checkers *)
BatchInvoke(t) ==
  \/ \E services \in BatchInputs : InvokeBatch(t, services)
  \/ \E services \in BatchInputs :
       \E outcomes \in McpOutcomes(services) :
            InvokeMcpBatch(t, services, outcomes)

Next ==
  \/ Tick
  \/ \E t \in Threads : StoreInvoke(t)
  \/ \E t \in Threads : StoreStep(t)

Spec == Init /\ [][Next]_vars

(* every thread that is inside an operation keeps being scheduled *)
FairSpec == Spec /\ \A t \in Threads : WF_vars(StoreStep(t))

CheckNext ==
  \/ Tick
  \/ \E t \in Threads : CheckInvoke(t)
  \/ \E t \in Threads : CheckStep(t)

CheckSpec == Init /\ [][CheckNext]_vars

BatchNext ==
  \/ \E t \in BatchCallers : BatchInvoke(t)
  \/ \E t \in BatchCallers : BatchSteps(t)

BatchSpec == Init /\ [][BatchNext]_vars

(* batches whose requests carry their own timeout, expected_status and    *)
(* method                                                                 *)
FieldRequests ==
  { [type |-> "port", port |-> 80],
    [type |-> "port", port |-> 80, timeout |-> 1],
    [type |-> "http", url |-> "http://a"],
    [type |-> "http", url |-> "http://a", timeout |-> 1,
     expected_status |-> 404, method |-> "HEAD"] }

FieldBatchInputs == UNION {[1..n -> FieldRequests] : n \in 0..MaxBatch}

FieldsStep(t) ==
  \/ BatchStep(t)
  \/ BatchReturn(t)
  \/ \E outcome \in CheckConnects : PortProbe(t, outcome)
  \/ \E outcome \in CheckResponses : HttpProbe(t, outcome)
  \/ PortBuild(t)
  \/ HttpBuild(t)
  \/ AddAcquire(t)
  \/ AddAppend(t)
  \/ AddFilter(t)
  \/ AddStore(t)
  \/ AddRelease(t)
  \/ CheckReturn(t)

FieldsNext ==
  \/ \E t \in BatchCallers : \E services \in FieldBatchInputs :
        InvokeBatch(t, services)
  \/ \E t \in BatchCallers : FieldsStep(t)

FieldsSpec == Init /\ [][FieldsNext]_vars

(* one caller making add_result and get_history calls one after the other *)
(* while another thread adds results of its own to the same name          *)
SequentialCallers == {1}
SequentialStatuses == {"up"}
ConcurrentStatuses == {"down"}

OrderInvoke(t) ==
  \/ \E name \in AddNames, ts \in {0, StartClock - 1, clock},
        status \in IF t \in SequentialCallers THEN SequentialStatuses
                   ELSE ConcurrentStatuses :
        InvokeAddResult(t, name, status, ts)
  \/ \E name \in AddNames :
        t \in SequentialCallers /\ InvokeGetHistory(t, name, DEFAULT_LIMIT)

OrderStep(t) ==
  \/ AddAcquire(t)
  \/ AddAppend(t)
  \/ AddFilter(t)
  \/ AddStore(t)
  \/ AddRelease(t)
  \/ GhAcquire(t)
  \/ GhRead(t)
  \/ GhRelease(t)

OrderNext ==
  \/ Tick
  \/ \E t \in Threads : OrderInvoke(t)
  \/ \E t \in Threads : OrderStep(t)

OrderSpec == Init /\ [][OrderNext]_vars

(* the loop of check_multiple_services keeps running; how long the network *)
(* takes to answer a member check is not bounded                           *)
BatchFairSpec ==
  BatchSpec /\ \A t \in BatchCallers : WF_vars(BatchStep(t) \/ BatchReturn(t))

(* single checks with every input and every outcome of the network *)
ProbeInvoke(t) ==
  \/ \E port \in ProbePorts : InvokeCheckPort(t, port)
  \/ \E url \in ProbeUrls, e \in ExpectedStatuses :
        InvokeCheckHttp(t, url, e)

ProbeStep(t) ==
  \/ \E outcome \in ConnectOutcomes : PortProbe(t, outcome)
  \/ \E outcome \in HttpOutcomes : HttpProbe(t, outcome)
  \/ PortBuild(t)
  \/ HttpBuild(t)
  \/ AddAcquire(t)
  \/ AddAppend(t)
  \/ AddFilter(t)
  \/ AddStore(t)
  \/ AddRelease(t)
  \/ CheckReturn(t)

ProbeNext ==
  \/ \E t \in ProbeCallers : ProbeInvoke(t)
  \/ \E t \in ProbeCallers : ProbeStep(t)

ProbeSpec == Init /\ [][ProbeNext]_vars

(* the functions that keep no state: the dataclass and the MCP checker *)
ModelCallers == {1}
ResultNames == {"n"}
ResultStatuses == {"up", "error"}
ResultTimes == {None, MEASURED}
ResultTexts == {"None", "text"}
ResultTimestamps == {None, 0, StartClock - 1}
PartialDicts == {[name |-> "n"], [status |-> "up", timestamp |-> 0]}
McpRequests ==
  { [type |-> "port", port |-> 80], [type |-> "http", url |-> "http://a"],
    [type |-> "ftp"], [name |-> "untyped"] }
McpBatchInputs == UNION {[1..n -> McpRequests] : n \in 0..MaxBatch}
McpConnects == {o \in ConnectOutcomes : o.kind \in {"connected", "refused"}}
McpResponses ==
  {o \in HttpOutcomes : o.kind = "Timeout" \/ o.code = DEFAULT_EXPECTED_STATUS}

(* what the network does to each entry of a batch of McpBatchInputs *)
McpBatchOutcomes(services) ==
  { o \in [1..Len(services) -> McpConnects \cup McpResponses] :
      \A i \in 1..Len(services) :
        LET service_type == GetOr(services[i], "type", "port")
        IN CASE service_type = "http" -> o[i] \in McpResponses
             [] service_type = "port" -> o[i] \in McpConnects
             [] OTHER -> o[i] = [kind |-> "connected", code |-> 0] }

ModelInvoke(t) ==
  \/ \E name \in ResultNames, status \in ResultStatuses,
        response_time \in ResultTimes, error_message \in ResultTexts,
        details \in ResultTexts, timestamp \in ResultTimestamps :
        InvokeToDict(t, name, status, response_time, error_message, details,
                     timestamp)
  \/ InvokeFromDict(t)
  \/ \E data \in PartialDicts : InvokeFromPartialDict(t, data)
  \/ \E port \in Ports, outcome \in ConnectOutcomes :
        InvokeMcpCheckPort(t, port, outcome)
  \/ \E url \in Urls, e \in ExpectedStatuses, outcome \in HttpOutcomes :
        InvokeMcpCheckHttp(t, url, e, outcome)
  \/ \E services \in McpBatchInputs :
       \E outcomes \in McpBatchOutcomes(services) :
            InvokeMcpBatch(t, services, outcomes)

ModelNext ==
  \/ Tick
  \/ \E t \in ModelCallers : ModelInvoke(t)

ModelSpec == Init /\ [][ModelNext]_vars

(* ------------------------------ properties ------------------------------ *)
InWindow(r, now) ==
  r.timestamp # 0 /\ r.timestamp > now - HISTORY_RETENTION_HOURS

Older(r, now) == r.timestamp < now - HISTORY_RETENTION_HOURS

Occurrences(seq, r) == Cardinality({i \in 1..Len(seq) : seq[i] = r})

InUptime(t) == pc[t] = "gh_lock" /\ Top(stack[t]) = "uptime"

(* a thread is between acquiring and releasing the store's lock *)
InCritical(t) ==
  \/ pc[t] \in {"add_append", "add_filter", "add_store", "add_unlock",
                "gh_read", "gh_unlock"}
  \/ InUptime(t)

(* C1: under fair scheduling every call of add_result, get_history,        *)
(* get_uptime_percentage and of the /api/history handler eventually        *)
(* returns; no thread waits for the lock forever.                          *)
C1_EveryCallReturns ==
  \A t \in Threads : (pc[t] # "idle") ~> (pc[t] = "idle")

(* C2: get_uptime_percentage(name) for a name with no recorded results     *)
(* returns exactly 0.0.                                                    *)
C2_EmptyUptimeIsZero ==
  \A t \in Threads :
    (InUptime(t) /\ DictGet(call[t].name) = <<>>)
      ~> (pc[t] = "idle" /\ ret[t].kind = "uptime" /\ ret[t].value.num = 0)

(* C3: add_result is atomic: at most one thread is inside a critical       *)
(* section of the store; every result whose add_result has completed and   *)
(* whose timestamp is in the window is in its name's sequence exactly      *)
(* once; and no get_history reads while a writer is between its append     *)
(* and the end of its eviction.                                            *)
C3_AddResultAtomic ==
  /\ Cardinality({t \in Threads : InCritical(t)}) <= 1
  /\ \A r \in added :
       InWindow(r, clock) => Occurrences(DictGet(r.name), r) = 1
  /\ \A t \in Threads :
       pc[t] \in {"gh_read", "gh_unlock"} =>
         \A u \in Threads : pc[u] \notin {"add_filter", "add_store"}

(* two completed add_result calls on one name, both results in the window  *)
(* and both stored                                                         *)
C3_Witness ==
  \E r1 \in added, r2 \in added :
    /\ r1.id # r2.id
    /\ r1.name = r2.name
    /\ InWindow(r1, clock) /\ InWindow(r2, clock)
    /\ Occurrences(DictGet(r1.name), r1) = 1
    /\ Occurrences(DictGet(r1.name), r2) = 1

NoneOlder(seq, now) == \A i \in 1..Len(seq) : ~Older(seq[i], now)

(* C4: when add_result(r) has evicted at time now, r.name's sequence holds *)
(* no entry older than now - 24h, and no later get_history(r.name) returns *)
(* such an entry.                                                          *)
C4_Retention ==
  /\ \A t \in Threads :
       pc[t] = "add_unlock" => NoneOlder(DictGet(cur[t].name), scratch[t].now)
  /\ \A n \in DOMAIN history :
       (\A t \in Threads : ~(pc[t] \in {"add_filter", "add_store"}
                             /\ cur[t].name = n))
         => NoneOlder(history[n], evictedAt[n])
  /\ \A t \in Threads :
       pc[t] = "gh_unlock" =>
         NoneOlder(scratch[t].list, evictedAt[call[t].name])

(* a reader holds the non-empty list of a name from which an add_result    *)
(* has evicted a result older than 24h                                     *)
C4_Witness ==
  \E t \in Threads, r \in added :
    /\ pc[t] = "gh_unlock"
    /\ call[t].name = r.name
    /\ r.timestamp # 0
    /\ Older(r, evictedAt[r.name])
    /\ Occurrences(DictGet(r.name), r) = 0
    /\ scratch[t].list # <<>>

Finished(t, op) == pc[t] = "idle" /\ call[t].op = op /\ ret[t].kind # "none"

(* C5: EnhancedServiceChecker.check_multiple_services returns exactly one  *)
(* entry per request, and total_services is the number of requests.        *)
C5_BatchComplete ==
  \A t \in Threads :
    Finished(t, "check_multiple_services") =>
      /\ ret[t].kind = "batch"
      /\ Len(ret[t].value.services) = Len(batch[t].services)
      /\ ret[t].value.total_services = Len(batch[t].services)

(* the entry is of the given type (default_type when it names none) and    *)
(* lacks the field that type requires                                      *)
LacksRequired(service, default_type) ==
  LET type == GetOr(service, "type", default_type)
  IN \/ type = "port" /\ "port" \notin DOMAIN service
     \/ type = "http" /\ "url" \notin DOMAIN service

IsolatesMissingField(t, default_type) ==
  (\E i \in 1..Len(batch[t].services) :
     LacksRequired(batch[t].services[i], default_type))
  => /\ ret[t].kind # "raised"
     /\ Len(ret[t].value.services) = Len(batch[t].services)
     /\ \A i \in 1..Len(batch[t].services) :
          LacksRequired(batch[t].services[i], default_type)
            => ret[t].value.services[i].status = "error"

(* C6: in both checkers a batch entry without its required field gives an  *)
(* error result for that entry and the batch still returns a result for    *)
(* every entry.                                                            *)
C6_MissingFieldIsolated ==
  \A t \in Threads :
    /\ Finished(t, "check_multiple_services")
         => IsolatesMissingField(t, "None")
    /\ Finished(t, "mcp_check_multiple_services")
         => IsolatesMissingField(t, "port")

IsSuffix(out, full) ==
  /\ Len(out) <= Len(full)
  /\ out = SubSeq(full, Len(full) - Len(out) + 1, Len(full))

(* C7: get_history(name, k) with k >= 0 returns the k most recent entries  *)
(* of the stored sequence: a suffix of it, of at most k entries.           *)
C7_AtMostLimit ==
  \A t \in Threads :
    (pc[t] = "gh_unlock" /\ call[t].limit >= 0) =>
      /\ Len(scratch[t].list) = Min(call[t].limit, Len(DictGet(call[t].name)))
      /\ IsSuffix(scratch[t].list, DictGet(call[t].name))

(* C8: the list get_history returns after concurrent check_port_service /  *)
(* check_http_service calls is in non-decreasing timestamp order.          *)
C8_HistorySorted ==
  \A t \in Threads :
    pc[t] = "gh_unlock" =>
      \A i \in 1..Len(scratch[t].list), j \in 1..Len(scratch[t].list) :
        i < j => scratch[t].list[i].timestamp <= scratch[t].list[j].timestamp

(* get_uptime_percentage as C9 states it: the last 100 entries, of these   *)
(* the ones within `hours` of now, and the share of up/open among them     *)
ClaimedUptime(name, hours, now) ==
  LET recent == PySliceLast(DictGet(name), UPTIME_SAMPLE)
      Within(r) == r.timestamp > now - hours
  IN UptimeValue(SelectSeq(recent, Within))

(* the call has returned the value C9 states *)
ReturnedClaimedUptime(t, name, hours) ==
  /\ pc[t] = "idle"
  /\ ret[t].kind = "uptime"
  /\ ret[t].value.num * ClaimedUptime(name, hours, clock).den
       = ClaimedUptime(name, hours, clock).num * ret[t].value.den

InUptimeOf(t, name, hours) ==
  InUptime(t) /\ call[t].name = name /\ call[t].hours = hours

(* C9: get_uptime_percentage(name, hours) returns 0.0 when none of the     *)
(* last 100 entries lies within `hours` of now, else 100 * up-or-open      *)
(* among them / their number.                                              *)
C9_UptimeFormula ==
  \A t \in Threads : \A name \in UptimeNames : \A hours \in HoursArgs :
    InUptimeOf(t, name, hours) ~> ReturnedClaimedUptime(t, name, hours)

(* C10: a result returned by check_port_service or check_http_service has  *)
(* been through a completed add_result.                                    *)
C10_RecordedBeforeReturned ==
  /\ returned \subseteq added
  /\ \A t \in Threads :
       /\ pc[t] = "check_return" => cur[t] \in added
       /\ ret[t].kind = "result" => ret[t].value \in added

(* a caller holds the result of a check, and it is recorded *)
C10_Witness ==
  \E t \in Threads :
    /\ pc[t] = "idle"
    /\ ret[t].kind = "result"
    /\ ret[t].value \in added
    /\ ret[t].value \in returned

(* C11: a single check never raises: check_port_service and                *)
(* check_http_service hand their caller a ServiceResult with a status      *)
(* and, when the status is not a success, an error_message, whatever the   *)
(* input and the outcome of the connect or request.                        *)
C11_SingleCheckNeverRaises ==
  \A t \in Threads :
    /\ ret[t].kind # "raised"
    /\ ret[t].kind = "result" =>
         /\ ret[t].value.status # ""
         /\ ~IsSuccess(ret[t].value.status)
              => ret[t].value.error_message # "None"

(* the status C12 states for each outcome of the connect *)
ClaimedPortStatus(outcome) ==
  CASE outcome.kind = "connected" -> "open"
    [] outcome.kind = "refused" -> "closed"
    [] outcome.kind = "timed_out" -> "timeout"
    [] OTHER -> "error"

(* C12: check_port_service gives "open" when the connect succeeded,        *)
(* "closed" when the target refused, "timeout" when nothing answered       *)
(* within the timeout and "error" for any other failure; the status is     *)
(* "open" only if the connect succeeded.                                   *)
C12_PortClassification ==
  [][\A t \in Threads : \A outcome \in ConnectOutcomes :
       (PortProbe(t, outcome) /\ pc'[t] = "port_build") =>
          /\ cur'[t].status = ClaimedPortStatus(outcome)
          /\ cur'[t].status = "open" => outcome.kind = "connected"]_vars

(* the status and message C13 states for each outcome of the request *)
ClaimedHttpResult(outcome, expected_status) ==
  LET expected == IF expected_status = None THEN DEFAULT_EXPECTED_STATUS
                  ELSE expected_status
  IN CASE outcome.kind = "response" ->
            IF outcome.code = expected
            THEN [status |-> "up", error_message |-> "None"]
            ELSE [status |-> "down",
                  error_message |-> ExpectedGot(expected, outcome.code)]
       [] outcome.kind = "Timeout" ->
            [status |-> "timeout", error_message |-> "Request timeout"]
       [] outcome.kind = "ConnectionError" ->
            [status |-> "down", error_message |-> "Connection refused"]
       [] OTHER -> [status |-> "error", error_message |-> "str(e)"]

(* C13: EnhancedServiceChecker.check_http_service gives "up" for a         *)
(* response whose code equals expected_status (200 when expected_status    *)
(* is absent), "down" with a message naming both codes for any other       *)
(* response, "timeout" for a timeout, "down" for a refused connection and  *)
(* "error" for any other exception.                                        *)
C13_HttpClassification ==
  [][\A t \in Threads : \A outcome \in HttpOutcomes :
       (HttpProbe(t, outcome) /\ pc'[t] = "http_build") =>
          LET claimed == ClaimedHttpResult(outcome, call[t].expected_status)
          IN /\ cur'[t].status = claimed.status
             /\ cur'[t].error_message = claimed.error_message]_vars

(* error_message is absent exactly when the status is a success status *)
MessageIffFailure(r) == (r.error_message = "None") <=> IsSuccess(r.status)

(* C16: every ServiceResult made by check_port_service or                  *)
(* check_http_service, and so every entry of the history, has no           *)
(* error_message if and only if its status is up or open.                  *)
C16_MessageIffFailure ==
  /\ \A r \in added \cup returned : MessageIffFailure(r)
  /\ \A n \in DOMAIN history : \A i \in 1..Len(history[n]) :
       MessageIffFailure(history[n][i])
  /\ \A t \in Threads :
       /\ pc[t] \in {"add_lock", "check_return"} => MessageIffFailure(cur[t])
       /\ ret[t].kind = "result" => MessageIffFailure(ret[t].value)

(* the history holds a successful check without a message and a failed     *)
(* check with one                                                          *)
C16_Witness ==
  \E n \in DOMAIN history, m \in DOMAIN history :
    \E i \in 1..Len(history[n]), j \in 1..Len(history[m]) :
      /\ IsSuccess(history[n][i].status)
      /\ history[n][i].error_message = "None"
      /\ ~IsSuccess(history[m][j].status)
      /\ history[m][j].error_message # "None"
      /\ history[n][i] \in returned
      /\ history[m][j] \in returned

HealthyEntries(results) ==
  {i \in 1..Len(results) : results[i].status \in {"open", "up"}}

(* C17: a batch that ServiceChecker.check_multiple_services answers has    *)
(* overall_status "healthy" if and only if every result has status open    *)
(* or up, else "unhealthy", and its summary gives h/t with t the number    *)
(* of results and h the number of them with status open or up.             *)
C17_McpOverallStatus ==
  \A t \in Threads :
    ret[t].kind = "mcp_batch" =>
      LET v == ret[t].value
      IN /\ v.overall_status \in {"healthy", "unhealthy"}
         /\ v.overall_status = "healthy"
              <=> HealthyEntries(v.services) = 1..Len(v.services)
         /\ v.total = Len(v.services)
         /\ v.healthy = Cardinality(HealthyEntries(v.services))

(* a batch of one succeeding and one timing-out check: unhealthy, 1/2 *)
C17_Witness ==
  \E t \in Threads :
    /\ ret[t].kind = "mcp_batch"
    /\ Len(ret[t].value.services) = 2
    /\ ret[t].value.services[1].status \in {"open", "up"}
    /\ ret[t].value.services[2].status = "timeout"
    /\ ret[t].value.overall_status = "unhealthy"
    /\ ret[t].value.healthy = 1
    /\ ret[t].value.total = 2

(* C14: the MCP checker's check_http_service reports "up" only for a       *)
(* response whose status code is 200 when expected_status is absent, or    *)
(* equals expected_status when it is present.                              *)
C14_McpUpOnlyIfExpected ==
  \A t \in Threads :
    (ret[t].kind = "mcp_http" /\ ret[t].value.status = "up") =>
      /\ ret[t].outcome.kind = "response"
      /\ ret[t].outcome.code =
           IF call[t].expected_status = None THEN DEFAULT_EXPECTED_STATUS
           ELSE call[t].expected_status

StatusTaxonomy ==
  {"up", "open", "down", "closed", "timeout", "error", "unknown"}

(* C15: the status of every result of any checker, and of from_dict, is    *)
(* one of up, open, down, closed, timeout, error, unknown.                 *)
C15_StatusTaxonomy ==
  \A t \in Threads :
    /\ ret[t].kind \in {"mcp_port", "mcp_http", "from_dict",
                        "from_partial_dict", "result"}
         => ret[t].value.status \in StatusTaxonomy
    /\ ret[t].kind = "mcp_batch" =>
         \A i \in 1..Len(ret[t].value.services) :
           ret[t].value.services[i].status \in StatusTaxonomy

SixKeys ==
  {"name", "status", "response_time", "error_message", "details", "timestamp"}

SameFields(a, b) == \A k \in SixKeys : a[k] = b[k]

(* C18: to_dict emits the six keys with the values of the fields (None     *)
(* for an absent optional field), and from_dict(r.to_dict()) has the same  *)
(* six fields as r.                                                        *)
C18_RoundTrip ==
  \A t \in Threads :
    /\ ret[t].kind = "dict" =>
         /\ DOMAIN ret[t].value = SixKeys
         /\ SameFields(ret[t].value, cur[t])
    /\ ret[t].kind = "from_dict" =>
         /\ DOMAIN ret[t].data = SixKeys
         /\ SameFields(ret[t].value, cur[t])

(* a result built without a timestamp and without a response time, with   *)
(* details, has been through to_dict and, at a later time, from_dict       *)
C18_Witness ==
  \E t \in Threads :
    /\ ret[t].kind = "from_dict"
    /\ cur[t].response_time = None
    /\ cur[t].details # "None"
    /\ cur[t].timestamp >= StartClock
    /\ clock > cur[t].timestamp
    /\ ret[t].value.id # cur[t].id

(* the thread is about to enter, or is inside, get_uptime_percentage(name) *)
CallsUptime(t, name) ==
  (pc[t] = "up_lock" \/ InUptime(t)) /\ call[t].name = name

(* the call has returned the percentage of the stored sequence *)
ReturnedUptimeOfStore(t, name) ==
  /\ pc[t] = "idle"
  /\ ret[t].kind = "uptime"
  /\ ret[t].value = UptimeValue(PySliceLast(DictGet(name), UPTIME_SAMPLE))

(* C19: get_uptime_percentage is a pure read whose output is a function    *)
(* of the store: no step of it changes a stored sequence, and every call   *)
(* returns the percentage of the sequence as stored, so that two calls     *)
(* without an add_result between them return the same value.               *)
C19_UptimeIdempotentRead ==
  /\ [][\A t \in Threads :
         ((pc[t] = "up_lock" \/ InUptime(t)) /\ pc'[t] # pc[t])
           => history' = history]_vars
  /\ \A t \in Threads : \A name \in UptimeNames :
       CallsUptime(t, name) ~> ReturnedUptimeOfStore(t, name)

(* entry k of the batch is a check the loop makes *)
IsMember(service) ==
  \/ GetOr(service, "type", "None") = "port" /\ "port" \in DOMAIN service
  \/ GetOr(service, "type", "None") = "http" /\ "url" \in DOMAIN service

(* member k of thread t's batch has been started and has not completed *)
MemberInFlight(t, k) ==
  /\ call[t].op = "check_multiple_services"
  /\ batch[t].i = k
  /\ Top(stack[t]) = "check"

MemberStarted(t, k) == batch[t].i > k \/ MemberInFlight(t, k)

(* the first of two member checks is waiting for the network *)
FirstMemberWaiting(t) ==
  /\ Len(batch[t].services) >= 2
  /\ IsMember(batch[t].services[1]) /\ IsMember(batch[t].services[2])
  /\ MemberInFlight(t, 1)
  /\ pc[t] \in {"port_probe", "http_probe"}

C21_BatchPassesRequestFields ==
  \A t \in Threads :
    (MemberInFlight(t, batch[t].i) /\ batch[t].i <= Len(batch[t].services)) =>
      LET service == batch[t].services[batch[t].i]
      IN /\ call[t].timeout = GetOr(service, "timeout", DEFAULT_TIMEOUT)
         /\ service.type = "http" =>
              /\ call[t].expected_status
                   = GetOr(service, "expected_status", None)
              /\ call[t].method = GetOr(service, "method", "GET")

(* the sequential caller's results are in the order of its calls *)
InCallOrder(seq) ==
  \A i \in 1..Len(seq), j \in 1..Len(seq) :
    (i < j /\ seq[i].status \in SequentialStatuses
           /\ seq[j].status \in SequentialStatuses)
      => seq[i].id < seq[j].id

(* C22: results of add_result calls on one name made one after the other   *)
(* are stored in the order of the calls, and get_history(name) afterwards  *)
(* lists them, the earlier call's result before the later one's.           *)
C22_CallOrder ==
  /\ \A n \in DOMAIN history : InCallOrder(history[n])
  /\ \A t \in Threads :
       pc[t] = "gh_unlock" =>
         /\ InCallOrder(scratch[t].list)
         /\ \A r1 \in added, r2 \in added :
              ( /\ r1.status \in SequentialStatuses
                /\ r2.status \in SequentialStatuses
                /\ r1.name = call[t].name /\ r2.name = call[t].name
                /\ r1.id < r2.id
                /\ InWindow(r1, clock) /\ InWindow(r2, clock) )
              => \E i \in 1..Len(scratch[t].list),
                    j \in 1..Len(scratch[t].list) :
                   i < j /\ scratch[t].list[i] = r1 /\ scratch[t].list[j] = r2

(* get_history holds the results of two calls made one after the other *)
C22_Witness ==
  \E t \in Threads :
    /\ pc[t] = "gh_unlock"
    /\ Len(scratch[t].list) = 2
    /\ scratch[t].list[1].status \in SequentialStatuses
    /\ scratch[t].list[2].status \in SequentialStatuses
    /\ scratch[t].list[1].id < scratch[t].list[2].id

AddPcs == {"add_lock", "add_append", "add_filter", "add_store", "add_unlock"}

(* the name has been passed to add_result *)
PassedToAdd(n) ==
  \/ \E r \in added : r.name = n
  \/ \E t \in Threads : pc[t] \in AddPcs /\ cur[t].name = n

(* C23: for a name never passed to add_result, get_history(name, limit)    *)
(* reads an empty list and the map gets no entry for the name.             *)
C23_UnknownNameEmpty ==
  \A n \in ServiceNames :
    ~PassedToAdd(n) =>
      /\ n \notin DOMAIN history
      /\ \A t \in Threads :
           (pc[t] = "gh_unlock" /\ call[t].name = n) => scratch[t].list = <<>>

(* get_history has read the list of a name never added, while the map      *)
(* holds results of another name                                           *)
C23_Witness ==
  \E t \in Threads :
    /\ pc[t] = "gh_unlock"
    /\ call[t].name = UNKNOWN_NAME
    /\ scratch[t].list = <<>>
    /\ UNKNOWN_NAME \notin DOMAIN history
    /\ \E n \in DOMAIN history : history[n] # <<>>

(* C24: add_result(r) changes the sequence of r.name alone: no step of it  *)
(* changes the sequence stored under another name, nor which other names   *)
(* the map holds.                                                          *)
C24_AddResultFrame ==
  [][\A t \in Threads :
       (pc[t] \in AddPcs /\ pc'[t] # pc[t]) =>
         \A n \in ServiceNames \ {cur[t].name} :
           /\ (n \in DOMAIN history') <=> (n \in DOMAIN history)
           /\ n \in DOMAIN history => history'[n] = history[n]]_vars

(* an add_result has stored the sequence of its name while the map holds    *)
(* results of another name                                                 *)
C24_Witness ==
  \E t \in Threads :
    /\ pc[t] = "add_unlock"
    /\ cur[t].name \in DOMAIN history
    /\ history[cur[t].name] # <<>>
    /\ \E n \in DOMAIN history : n # cur[t].name /\ history[n] # <<>>

(* the entries with a non-zero timestamp within 24 hours of now, in order *)
KeptByClaim(seq, now) == SelectSeq(seq, LAMBDA e : InWindow(e, now))

(* C25: no over-eviction: add_result(r) appends r at the end of r.name's    *)
(* sequence and then deletes from it exactly the entries whose timestamp   *)
(* is zero or not within the last 24 hours, keeping the order of the       *)
(* others; no other step of add_result, get_history or                     *)
(* get_uptime_percentage changes a sequence.                               *)
C25_NoOverEviction ==
  [][/\ \A t \in Threads :
          /\ (pc[t] = "add_append" /\ pc'[t] # pc[t]) =>
                history'[cur[t].name]
                  = Append(DictGet(cur[t].name), cur[t])
          /\ (pc[t] = "add_store" /\ pc'[t] # pc[t]) =>
                history'[cur[t].name]
                  = KeptByClaim(DictGet(cur[t].name), scratch[t].now)
     /\ (\A t \in Threads :
           ~(pc[t] \in {"add_append", "add_store"} /\ pc'[t] # pc[t]))
          => history' = history]_vars

(* an add_result has evicted a result older than 24 hours and kept two     *)
(* newer ones                                                              *)
C25_Witness ==
  \E t \in Threads, r \in added :
    /\ pc[t] = "add_unlock"
    /\ r.name = cur[t].name
    /\ r.timestamp # 0
    /\ Older(r, scratch[t].now)
    /\ Occurrences(DictGet(r.name), r) = 0
    /\ Len(DictGet(r.name)) >= 2
====
